---- MODULE Spec2Model ----
(***************************************************************************)
(* Token lifecycle of the Strava proxy (src/index.js, current revision,    *)
(* lines 1-361): ensureValidToken / refreshAccessToken against the two     *)
(* external services, the token store ("runaway" service) and the OAuth    *)
(* provider, plus the /callback handler that creates the stored records    *)
(* and the proxy routes that call ensureValidToken and answer the client.  *)
(* Every await of the source is one step boundary: a request is suspended  *)
(* while its HTTP call is in flight and other requests, and the clock,     *)
(* may move in between.                                                    *)
(***************************************************************************)
EXTENDS Integers, Sequences, FiniteSets, TLC

\* ---------------------------------------------------------------- bounds
MaxTime == 2
MaxIssued == 3

\* ------------------------------------------------------------ vocabulary
\* the ids the token store and the provider know, and the ones that
\* authorize and call in Spec
Users == {"u1", "u2"}
Clients == {"u1"}
Slots == {1, 2}

NoToken == <<"none", 0>>
AccessTok(n) == <<"a", n>>
RefreshTok(n) == <<"r", n>>

NoRecord == [access_token |-> NoToken, refresh_token |-> NoToken, expires_at |-> 0]
NoError == <<"", "">>

\* lifetimes (seconds) the provider gives an access token
Lifetimes == {1}

\* details the provider's error response may carry (error.response.data.message)
InvalidGrant == "Bad Request"
ProviderDown == "Service Unavailable"
StoreDown == "Network Error"

\* JS truthiness of a token and of an id (both strings in the source)
Truthy(x) == x # NoToken
TruthyId(x) == x # ""

VARIABLES
    clock,      \* Math.floor(Date.now() / 1000)
    store,      \* token store: GET/POST /tokens, GET /refresh-tokens
    prov,       \* OAuth provider: the refresh token it accepts per user
    issued,     \* OAuth provider: number of token pairs issued so far
    reqs,       \* the ensureValidToken calls in flight, one per slot
    cb,         \* the /callback request in flight
    hist        \* history (ghost) per user, read by the properties only

vars == <<clock, store, prov, issued, reqs, cb, hist>>

\* ------------------------------------------------- code: pure fragments

\* (variant) the comparison made inclusive
TokenStillValidInclusive(now, storedExpiresAt) == now <= storedExpiresAt

\* (variant) now left in milliseconds: Date.now() without the division of 259
TokenStillValidMillis(now, storedExpiresAt) == now * 1000 < storedExpiresAt

\* src/index.js:268  if (now < storedExpiresAt)
TokenStillValid(now, storedExpiresAt) == now < storedExpiresAt

\* (variant) the wrong field of the record returned
CachedTokenWrongField(data) == data.refresh_token

\* src/index.js:270  return runawayResponse.data.access_token
CachedToken(data) == data.access_token

\* src/index.js:280-283  catch (error) { throw new Error('Failed to ensure valid token') }
EnsureCatch(error) == <<"Failed to ensure valid token", "">>

\* (variant) the check of the refresh token left out
NoRefreshTokenFoundNever(storedRefreshToken) == FALSE

\* src/index.js:316  if (!storedRefreshToken)
NoRefreshTokenFound(storedRefreshToken) == ~Truthy(storedRefreshToken)

\* src/index.js:317  throw new Error('No refresh token found in runaway service')
MissingRefreshToken == <<"No refresh token found in runaway service", "">>

\* src/index.js:325-330  body of the refresh_token grant
RefreshGrantBody(storedRefreshToken) ==
    [grant_type |-> "refresh_token", refresh_token |-> storedRefreshToken]

\* (variant) the provider's detail left out of the error
ExchangeCatchNoDetail(detail) == <<"Strava token refresh failed", "">>

\* src/index.js:330-332  .catch(error => { throw new Error(`Strava token refresh failed: ...`) })
ExchangeCatch(detail) == <<"Strava token refresh failed", detail>>

\* src/index.js:309-311  .catch(error => { throw new Error(`Failed to fetch from runaway service: ...`) })
FetchCatch(detail) == <<"Failed to fetch from runaway service", detail>>

\* (variant) the record stored without its refresh token
TokenUpsertBodyPartial(athleteId, data) ==
    [user_id |-> athleteId,
     access_token |-> data.access_token,
     refresh_token |-> NoToken,
     expires_at |-> data.expires_at]

\* (variant) the two tokens stored in each other's field
TokenUpsertBodySwapped(athleteId, data) ==
    [user_id |-> athleteId,
     access_token |-> data.refresh_token,
     refresh_token |-> data.access_token,
     expires_at |-> data.expires_at]

\* (variant) the record stored under one fixed user id
TokenUpsertBodyFixedUser(athleteId, data) ==
    [user_id |-> "u2",
     access_token |-> data.access_token,
     refresh_token |-> data.refresh_token,
     expires_at |-> data.expires_at]

\* (variant) the record stored without its expiry
TokenUpsertBodyNoExpiry(athleteId, data) ==
    [user_id |-> athleteId,
     access_token |-> data.access_token,
     refresh_token |-> data.refresh_token,
     expires_at |-> 0]

\* src/index.js:342-347  body of POST /tokens in refreshAccessToken
TokenUpsertBody(athleteId, data) ==
    [user_id |-> athleteId,
     access_token |-> data.access_token,
     refresh_token |-> data.refresh_token,
     expires_at |-> data.expires_at]

\* (variant) the failed write rethrown
PersistCatchRethrow(writeOk) ==
    IF writeOk THEN NoError ELSE <<"Failed to update runaway service", StoreDown>>

\* (variant) refreshAccessToken throws after the write, whatever its outcome
PersistCatchThrowAlways(writeOk) == <<"Failed to update runaway service", StoreDown>>

\* src/index.js:347-350  .catch(error => { console.error(...) }): what the
\* failed write makes refreshAccessToken throw (nothing)
PersistCatch(writeOk) == NoError

\* (variant) the refresh token returned in place of the access token
NewAccessTokenWrongField(data) == data.refresh_token

\* src/index.js:336,353  const newAccessToken = tokenResponse.data.access_token; return newAccessToken
NewAccessToken(data) == data.access_token

\* (variant) every error answered as a 401
HandleErrorAlwaysExpired(status, message) ==
    "Authentication expired. Please login again at the home page."

\* src/index.js:286-299  handleError: the text sent to the client
HandleError(status, message) ==
    IF status = 401
    THEN "Authentication expired. Please login again at the home page."
    ELSE "Error: " \o message

\* axios resolves on a 2xx status and rejects on every other
\* (135-138 and the catch of 141)
Resolves(status) == status >= 200 /\ status < 300

\* src/index.js:294,298  res.send(text): no status is set, Express sends 200
Send(text) == [status |-> 200, body |-> <<"text", text>>]

\* src/index.js:132  res.status(401).send('Please authenticate first ...')
Unauthenticated ==
    [status |-> 401,
     body |-> <<"text", "Please authenticate first by visiting the home page">>]

\* src/index.js:140  res.json(activityResponse.data)
RouteJson(data) == [status |-> 200, body |-> <<"json", data>>]

\* src/index.js:136-143  what a proxy route answers to the upstream response
\* `up`: the data of a resolved call, handleError of a rejected one
RouteReply(up) ==
    IF Resolves(up.status)
    THEN RouteJson(up.data)
    ELSE Send(HandleError(up.status, up.message))

\* src/index.js:135,141-143  ensureValidToken rejected: the error carries
\* no response, handleError sends its message
RouteError(error) == Send(HandleError(0, error[1]))

\* ------------------------------------------- environment: the token store

\* POST /tokens: upsert of the whole record under body.user_id
StoreUpsert(st, body) ==
    [st EXCEPT ![body.user_id] =
        [access_token |-> body.access_token,
         refresh_token |-> body.refresh_token,
         expires_at |-> body.expires_at]]

\* GET /tokens/{userId} and GET /refresh-tokens/{userId} answer from the record
HasRecord(u) == store[u] # NoRecord

\* ------------------------------------------ environment: the OAuth provider

\* the pair the provider issues as its n-th grant. The provider rotates: every
\* grant carries a new refresh token and the user's previous one stops
\* being accepted (the case the engine has to be built for)
Grant(n, ttl) ==
    [access_token |-> AccessTok(n),
     refresh_token |-> RefreshTok(n),
     expires_at |-> clock + ttl]

\* the users whose current refresh token is the one presented
Owners(rt) == {u \in Users : Truthy(rt) /\ prov[u] = rt}

\* ------------------------------------- environment: the resource endpoints

\* what a resource endpoint of the provider may answer: the data, or an
\* error status with {message} as its body
NoResponse == [status |-> 0, data |-> "", message |-> ""]
UpstreamResponses ==
    {[status |-> 200, data |-> "activities", message |-> ""],
     [status |-> 401, data |-> "", message |-> "Authorization Error"],
     [status |-> 404, data |-> "", message |-> "Record Not Found"]}

\* the JSON body of an upstream response
UpstreamBody(up) == <<"json", IF Resolves(up.status) THEN up.data ELSE up.message>>

NoReply == [status |-> 0, body |-> <<"", "">>]

\* ------------------------------------------------------- request records

IdleReq ==
    [pc |-> "idle", userId |-> "", now |-> 0,
     storedRefreshToken |-> NoToken,
     tokenResponse |-> NoRecord,     \* tokenResponse.data
     result |-> NoToken,             \* value ensureValidToken resolves with
     error |-> NoError,              \* error ensureValidToken rejects with
     cause |-> NoError,              \* error caught at line 280
     upstream |-> NoResponse,        \* what the resource endpoint answered the route
     reply |-> NoReply,              \* what the route sent to its client
     \* history of this call, read by the properties only
     lookup |-> "none",              \* GET /tokens: "ok" | "fail"
     seen |-> "none",                \* the record it returned, its expires_at against now:
                                     \* "valid" (later) | "boundary" (equal) | "expired" (earlier)
     seenToken |-> NoToken,          \* its access_token, when valid
     freshSeen |-> NoToken,          \* access token of the last persisted refresh, when unexpired
     rlookup |-> "none",             \* GET /refresh-tokens: "ok" | "empty" | "fail"
     persist |-> "none",             \* POST /tokens: "ok" | "fail"
     pcalls |-> 0, scalls |-> 0,     \* calls sent to the provider, to the store
     grant |-> NoRecord,             \* what the provider issued to this call
     presented |-> NoToken,          \* what the provider received from this call
     storeAtRead |-> NoToken,        \* refresh token the store held when step 1 read it
     chainAtRead |-> NoToken,        \* refresh token the last persisted grant carried, then
     afterRefresh |-> FALSE,         \* that grant was a refresh (not the authorization)
     afterLoss |-> FALSE,            \* step 1 read a record that a failed write left behind
     raced |-> FALSE,                \* another call's refresh for the user was stored meanwhile
     rotatedAway |-> FALSE,          \* another call was granted on the same refresh token first
     freshAtSample |-> FALSE,        \* served from the store with expires_at > now (259)
     freshAtReturn |-> FALSE]        \* returned token's expires_at > time of the return

IdleCb ==
    [pc |-> "idle", code |-> "", tokenResponse |-> NoRecord, userId |-> "",
     response |-> "",
     \* history of this request, read by the properties only
     xcalls |-> 0,       \* authorization_code grants sent
     session |-> FALSE,  \* POST /sessions stored the session
     stored |-> FALSE]   \* POST /tokens stored the record

\* chainRT: refresh token of the last stored grant; lastGrant: that grant;
\* lastRefresh: that grant when it was a refresh; lost: a write has failed since;
\* restarted: the process has been restarted since the user's last authorization
NoHist ==
    [chainRT |-> NoToken, lastGrant |-> NoRecord, lastRefresh |-> NoRecord,
     lost |-> FALSE, restarted |-> FALSE]

Init ==
    /\ clock = 0
    /\ store = [u \in Users |-> NoRecord]
    /\ prov = [u \in Users |-> NoToken]
    /\ issued = 0
    /\ reqs = [s \in Slots |-> IdleReq]
    /\ cb = IdleCb
    /\ hist = [u \in Users |-> NoHist]

\* the wall clock advances, also while requests are suspended on an await
Tick ==
    /\ clock < MaxTime
    /\ clock' = clock + 1
    /\ UNCHANGED <<store, prov, issued, reqs, cb, hist>>

\* ------------------------------------------ ensureValidToken (253-284)

SetReq(s, r) == reqs' = [reqs EXCEPT ![s] = r]

\* the try of 254 catches `cause` at 280 and rethrows the generic error
Reject(r, cause) ==
    [r EXCEPT !.pc = "done", !.cause = cause, !.error = EnsureCatch(cause)]

\* 274 / 278: return await refreshAccessToken(userId); 303 passes (userId is
\* non-empty here) and GET /refresh-tokens/{athleteId} is sent (308)
BeginRefresh(r) == [r EXCEPT !.pc = "rlookup", !.scalls = @ + 1]

\* the calls are interchangeable: a new one takes the lowest free slot
Free(s) == reqs[s].pc = "idle" /\ \A t \in Slots : t < s => reqs[t].pc # "idle"

\* no ensureValidToken call and no callback is in flight
AllIdle == (\A s \in Slots : reqs[s].pc = "idle") /\ cb.pc = "idle"

\* 255-257: if (!userId) throw new Error('User ID is required'). The step
\* reads and writes nothing but the call's own record, so interleaving it
\* with requests in flight adds no behaviour: it is taken when none is.
StartInvalid(s) ==
    /\ Free(s)
    /\ AllIdle
    /\ SetReq(s, Reject([IdleReq EXCEPT !.userId = ""], <<"User ID is required", "">>))
    /\ UNCHANGED <<clock, store, prov, issued, cb, hist>>

\* 259-263: now is sampled, GET /tokens/{userId} is sent
Start(s, u) ==
    /\ Free(s)
    /\ TruthyId(u)
    /\ SetReq(s, [IdleReq EXCEPT !.pc = "lookup", !.userId = u, !.now = clock,
                                 !.scalls = @ + 1])
    /\ UNCHANGED <<clock, store, prov, issued, cb, hist>>

\* what the lookup saw, for the properties: the record's state against the
\* sampled now, and the last persisted refresh if its token is unexpired.
\* now is not read after line 268: the record stops carrying it
Saw(r, data) ==
    LET last == hist[r.userId].lastRefresh
    IN  [r EXCEPT !.lookup = "ok", !.now = 0,
                  !.seen = IF data.expires_at > r.now THEN "valid"
                           ELSE IF data.expires_at = r.now THEN "boundary" ELSE "expired",
                  !.seenToken = IF data.expires_at > r.now THEN data.access_token ELSE NoToken,
                  !.freshSeen = IF last # NoRecord /\ r.now < last.expires_at
                                THEN last.access_token ELSE NoToken]

\* 263-271: the record arrives and now < storedExpiresAt
LookupHit(s) ==
    LET r == reqs[s]
        data == store[r.userId]
    IN  /\ r.pc = "lookup"
        /\ HasRecord(r.userId)
        /\ TokenStillValid(r.now, data.expires_at)
        /\ SetReq(s, [Saw(r, data) EXCEPT !.pc = "done",
                               !.result = CachedToken(data),
                               !.freshAtSample = data.expires_at > r.now,
                               !.freshAtReturn = data.expires_at > clock])
        /\ UNCHANGED <<clock, store, prov, issued, cb, hist>>

\* 263-274: the record arrives and is expired
LookupExpired(s) ==
    LET r == reqs[s]
        data == store[r.userId]
    IN  /\ r.pc = "lookup"
        /\ HasRecord(r.userId)
        /\ ~TokenStillValid(r.now, data.expires_at)
        /\ SetReq(s, BeginRefresh(Saw(r, data)))
        /\ UNCHANGED <<clock, store, prov, issued, cb, hist>>

\* 275-278: GET /tokens fails (store unreachable, or 404 for no record)
LookupFail(s) ==
    LET r == reqs[s]
    IN  /\ r.pc = "lookup"
        /\ SetReq(s, BeginRefresh([r EXCEPT !.lookup = "fail", !.now = 0]))
        /\ UNCHANGED <<clock, store, prov, issued, cb, hist>>

\* ----------------------------------------- refreshAccessToken (301-361)

\* 308-330: the refresh token arrives and the refresh grant is sent
RefreshLookupOk(s) ==
    LET r == reqs[s]
        rt == store[r.userId].refresh_token
    IN  /\ r.pc = "rlookup"
        /\ ~NoRefreshTokenFound(rt)
        /\ SetReq(s, [r EXCEPT !.pc = "exchange", !.rlookup = "ok",
                               !.storedRefreshToken = rt,
                               !.pcalls = @ + 1,
                               !.presented = RefreshGrantBody(rt).refresh_token,
                               !.storeAtRead = store[r.userId].refresh_token,
                               !.chainAtRead = hist[r.userId].chainRT,
                               !.afterRefresh = hist[r.userId].lastRefresh # NoRecord,
                               !.afterLoss = hist[r.userId].lost])
        /\ UNCHANGED <<clock, store, prov, issued, cb, hist>>

\* 315-318: the answer carries no refresh token
RefreshLookupEmpty(s) ==
    LET r == reqs[s]
    IN  /\ r.pc = "rlookup"
        /\ NoRefreshTokenFound(store[r.userId].refresh_token)
        /\ SetReq(s, Reject([r EXCEPT !.rlookup = "empty"], MissingRefreshToken))
        /\ UNCHANGED <<clock, store, prov, issued, cb, hist>>

\* 308-311: GET /refresh-tokens fails
RefreshLookupFail(s) ==
    LET r == reqs[s]
    IN  /\ r.pc = "rlookup"
        /\ SetReq(s, Reject([r EXCEPT !.rlookup = "fail"], FetchCatch(StoreDown)))
        /\ UNCHANGED <<clock, store, prov, issued, cb, hist>>

\* calls t and s have sent the provider the same refresh token for the
\* same user and both wait for its answer
SameGrantSent(t, s) ==
    /\ reqs[t].pc = "exchange" /\ reqs[s].pc = "exchange"
    /\ reqs[t].userId = reqs[s].userId
    /\ reqs[t].presented = reqs[s].presented

\* 325-347: the provider accepts the presented refresh token, issues a new
\* pair, and POST /tokens is sent
ExchangeOk(s) ==
    LET r == reqs[s]
    IN  /\ r.pc = "exchange"
        /\ issued < MaxIssued
        /\ \E u \in Owners(r.presented), ttl \in Lifetimes :
             LET g == Grant(issued + 1, ttl)
             IN  /\ prov' = [prov EXCEPT ![u] = g.refresh_token]
                 /\ reqs' = [t \in Slots |->
                                IF t = s
                                THEN [r EXCEPT !.pc = "persist", !.tokenResponse = g,
                                               !.grant = g, !.scalls = @ + 1]
                                ELSE IF SameGrantSent(t, s)
                                     THEN [reqs[t] EXCEPT !.rotatedAway = TRUE]
                                     ELSE reqs[t]]
        /\ issued' = issued + 1
        /\ UNCHANGED <<clock, store, cb, hist>>

\* variant of ExchangeFail: the grant is sent again when it has failed
ExchangeFailRetry(s) ==
    LET r == reqs[s]
    IN  /\ r.pc = "exchange"
        /\ SetReq(s, [r EXCEPT !.pcalls = @ + 1])
        /\ UNCHANGED <<clock, store, prov, issued, cb, hist>>

\* 330-332: the provider rejects the grant (the refresh token is not the
\* one it accepts) or cannot be reached
ExchangeFail(s) ==
    LET r == reqs[s]
        detail == IF Owners(r.presented) = {} THEN InvalidGrant ELSE ProviderDown
    IN  /\ r.pc = "exchange"
        /\ SetReq(s, Reject(r, ExchangeCatch(detail)))
        /\ UNCHANGED <<clock, store, prov, issued, cb, hist>>

\* call t is inside refreshAccessToken for user u
Refreshing(t, u) ==
    reqs[t].userId = u /\ reqs[t].pc \in {"rlookup", "exchange", "persist"}

\* how refreshAccessToken ends once POST /tokens has answered (347-353)
AfterPersist(r, writeOk) ==
    IF PersistCatch(writeOk) = NoError
    THEN [r EXCEPT !.pc = "done",
                   !.persist = IF writeOk THEN "ok" ELSE "fail",
                   !.result = NewAccessToken(r.tokenResponse),
                   !.freshAtReturn = r.grant.expires_at > clock]
    ELSE Reject([r EXCEPT !.persist = "fail"], PersistCatch(writeOk))

\* 342-353: the store takes the record
PersistOk(s) ==
    LET r == reqs[s]
        body == TokenUpsertBody(r.userId, r.tokenResponse)
    IN  /\ r.pc = "persist"
        /\ body.user_id \in Users
        /\ store' = StoreUpsert(store, body)
        /\ hist' = [hist EXCEPT ![body.user_id] =
                       [chainRT |-> r.grant.refresh_token, lastGrant |-> r.grant,
                        lastRefresh |-> r.grant, lost |-> FALSE,
                        restarted |-> hist[body.user_id].restarted]]
        /\ reqs' = [t \in Slots |->
                       IF t = s THEN AfterPersist(r, TRUE)
                       ELSE IF Refreshing(t, r.userId)
                            THEN [reqs[t] EXCEPT !.raced = TRUE]
                            ELSE reqs[t]]
        /\ UNCHANGED <<clock, prov, issued, cb>>

\* 347-353: POST /tokens fails; the failure is logged only
PersistFail(s) ==
    LET r == reqs[s]
    IN  /\ r.pc = "persist"
        /\ hist' = [hist EXCEPT ![r.userId].lost = TRUE]
        /\ SetReq(s, AfterPersist(r, FALSE))
        /\ UNCHANGED <<clock, store, prov, issued, cb>>

\* ------------------------------------------------ GET /callback (53-126)
\* The handler awaits six HTTP calls. Sending the authorization_code grant,
\* GET /athlete, GET /auth/{userId} and POST /sessions touch nothing another
\* request reads, so they are taken in the same step as the provider's
\* answer to the grant; the steps that remain are the ones around the
\* provider's grant and around POST /tokens.

\* 111-116: body of POST /tokens in the callback
CallbackUpsertBody(userId, data) ==
    [user_id |-> userId,
     refresh_token |-> data.refresh_token,
     access_token |-> data.access_token,
     expires_at |-> data.expires_at]

\* 121 res.send(...)
CallbackSuccess == "Authentication successful! You can now use the API."

CbDone(c, text) == cb' = [c EXCEPT !.pc = "done", !.response = text]

\* 56-58: no code in the query (like StartInvalid, taken when nothing is in flight)
CallbackNoCode ==
    /\ AllIdle
    /\ CbDone(cb, "Authorization code is required")
    /\ UNCHANGED <<clock, store, prov, issued, reqs, hist>>

\* 54-111: the code is the one the provider handed out when user u approved
\* the application. The provider issues the pair of the authorization, the
\* athlete and the auth id arrive, POST /sessions is answered and
\* POST /tokens is sent. Whether POST /sessions stored the session (its
\* failure is logged only, 99-101) is read by nothing before the handler
\* ends, and is settled there
CbExchangeOk(u) ==
    /\ cb.pc = "idle"
    /\ issued < MaxIssued
    /\ \E ttl \in Lifetimes :
         LET g == Grant(issued + 1, ttl)
         IN  /\ prov' = [prov EXCEPT ![u] = g.refresh_token]
             /\ cb' = [cb EXCEPT !.pc = "tokens", !.code = u, !.xcalls = 1,
                                 !.tokenResponse = g, !.userId = u]
    /\ issued' = issued + 1
    /\ UNCHANGED <<clock, store, reqs, hist>>

\* 61-66, 122-125: the provider rejects the code with 400 Bad Request (like
\* StartInvalid, taken when nothing is in flight)
CbExchangeFail(u) ==
    /\ AllIdle
    /\ CbDone([cb EXCEPT !.code = u, !.xcalls = 1], HandleError(400, InvalidGrant))
    /\ UNCHANGED <<clock, store, prov, issued, reqs, hist>>

\* 61-82, 122-125: the provider issues the pair, then GET /athlete or
\* GET /auth/{userId} fails: the pair is dropped
CbIdentifyFail(u) ==
    /\ cb.pc = "idle"
    /\ issued < MaxIssued
    /\ \E ttl \in Lifetimes, status \in {401, 500} :
         LET g == Grant(issued + 1, ttl)
         IN  /\ prov' = [prov EXCEPT ![u] = g.refresh_token]
             /\ CbDone([cb EXCEPT !.code = u, !.xcalls = 1, !.tokenResponse = g],
                       HandleError(status, ProviderDown))
    /\ issued' = issued + 1
    /\ UNCHANGED <<clock, store, reqs, hist>>

\* 111-121: the record is stored
CbTokensOk ==
    LET body == CallbackUpsertBody(cb.userId, cb.tokenResponse)
    IN  /\ cb.pc = "tokens"
        /\ store' = StoreUpsert(store, body)
        /\ hist' = [hist EXCEPT ![body.user_id] =
                       [chainRT |-> cb.tokenResponse.refresh_token,
                        lastGrant |-> cb.tokenResponse,
                        lastRefresh |-> NoRecord, lost |-> FALSE,
                        restarted |-> FALSE]]
        /\ \E sessionOk \in BOOLEAN :
             CbDone([cb EXCEPT !.stored = TRUE, !.session = sessionOk], CallbackSuccess)
        /\ UNCHANGED <<clock, prov, issued, reqs>>

\* 116-121: the failure is logged only
CbTokensFail ==
    /\ cb.pc = "tokens"
    /\ \E sessionOk \in BOOLEAN :
         CbDone([cb EXCEPT !.session = sessionOk], CallbackSuccess)
    /\ UNCHANGED <<clock, store, prov, issued, reqs, hist>>

\* ------------------------------------------- proxy routes (128-217)
\* The four routes differ in the resource path only. ensureValidToken is
\* the call of a slot; what follows it in the route (the resource call and
\* the answer) reads and writes nothing another request uses and is one
\* step.

\* 135-140, 141-143: ensureValidToken resolved; the resource endpoint is
\* called with the token and answers, the route answers its client
RouteRelay(s) ==
    LET r == reqs[s]
    IN  /\ r.pc = "done"
        /\ TruthyId(r.userId)
        /\ r.error = NoError
        /\ \E up \in UpstreamResponses :
             SetReq(s, [IdleReq EXCEPT !.pc = "replied", !.userId = r.userId,
                                       !.upstream = up, !.reply = RouteReply(up)])
        /\ UNCHANGED <<clock, store, prov, issued, cb, hist>>

\* 135, 141-143: ensureValidToken rejected; no resource call is made
RouteFail(s) ==
    LET r == reqs[s]
    IN  /\ r.pc = "done"
        /\ TruthyId(r.userId)
        /\ r.error # NoError
        /\ SetReq(s, [IdleReq EXCEPT !.pc = "replied", !.userId = r.userId,
                                     !.reply = RouteError(r.error)])
        /\ UNCHANGED <<clock, store, prov, issued, cb, hist>>

\* 131-133: the request carries no user id; ensureValidToken is not called
\* (like StartInvalid, taken when nothing is in flight)
RouteUnauthenticated(s) ==
    /\ Free(s)
    /\ AllIdle
    /\ SetReq(s, [IdleReq EXCEPT !.pc = "replied", !.reply = Unauthenticated])
    /\ UNCHANGED <<clock, store, prov, issued, cb, hist>>

\* ------------------------------------------------------- specification
\* A call that has returned (pc = "done") and a route that has answered
\* (pc = "replied") show their outcome for one state; handing the outcome
\* over and freeing the slot commutes with every other step, so it is
\* taken before anything else moves.

Returned == (\E s \in Slots : reqs[s].pc \in {"done", "replied"}) \/ cb.pc = "done"

\* a call with an empty id is not made by a route (131-133, 155-157):
\* its outcome goes to the direct caller
Finish(s) ==
    /\ reqs[s].pc = "done"
    /\ ~TruthyId(reqs[s].userId)
    /\ SetReq(s, IdleReq)
    /\ UNCHANGED <<clock, store, prov, issued, cb, hist>>

\* variant of Close: the process keeps the answer of the request in memory
CloseKeepsReply(s) ==
    /\ reqs[s].pc = "replied"
    /\ SetReq(s, [reqs[s] EXCEPT !.pc = "idle"])
    /\ UNCHANGED <<clock, store, prov, issued, cb, hist>>

\* the answer of a route has been sent
Close(s) ==
    /\ reqs[s].pc = "replied"
    /\ SetReq(s, IdleReq)
    /\ UNCHANGED <<clock, store, prov, issued, cb, hist>>

CbFinish ==
    /\ cb.pc = "done"
    /\ cb' = IdleCb
    /\ UNCHANGED <<clock, store, prov, issued, reqs, hist>>

\* no outcome is waiting to be handed over
Running == ~Returned

\* The process is stopped and started again between two requests. What it
\* held in memory is gone: the module scope of index.js (1-16, 36-51) holds
\* the configuration constants and the express application only, a handler's
\* variables (`now`, `tokenResponse`, `runawayResponse`, 253-361) live in its
\* invocation. The store, the provider and the clock are other processes.
Restart ==
    /\ AllIdle
    /\ reqs' = [s \in Slots |-> IdleReq]
    /\ cb' = IdleCb
    /\ hist' = [u \in Users |-> [hist[u] EXCEPT !.restarted = HasRecord(u)]]
    /\ UNCHANGED <<clock, store, prov, issued>>

\* the steps of the ensureValidToken calls `Calls` (<<slot, user>> pairs)
\* and of the clock
CallStep(Calls) ==
    \/ Running /\ Tick
    \/ \E c \in Calls : Running /\ Start(c[1], c[2])
    \/ \E s \in Slots : Running /\ LookupHit(s)
    \/ \E s \in Slots : Running /\ LookupExpired(s)
    \/ \E s \in Slots : Running /\ LookupFail(s)
    \/ \E s \in Slots : Running /\ RefreshLookupOk(s)
    \/ \E s \in Slots : Running /\ RefreshLookupEmpty(s)
    \/ \E s \in Slots : Running /\ RefreshLookupFail(s)
    \/ \E s \in Slots : Running /\ ExchangeOk(s)
    \/ \E s \in Slots : Running /\ ExchangeFail(s)
    \/ \E s \in Slots : Running /\ PersistOk(s)
    \/ \E s \in Slots : RouteRelay(s)
    \/ \E s \in Slots : RouteFail(s)
    \/ \E s \in Slots : Close(s)

\* the steps in which a write to the store fails (POST /tokens of a
\* refresh, 342-353, and of the callback, 110-119)
LostRefreshWrite == \E s \in Slots : Running /\ PersistFail(s)

LostWriteStep ==
    \/ LostRefreshWrite
    \/ Running /\ CbTokensFail

\* the steps of a callback that completes, for the users U
AuthStep(U) ==
    \/ \E u \in U : Running /\ CbExchangeOk(u)
    \/ Running /\ CbTokensOk
    \/ CbFinish

\* the steps of a callback that fails before its write, for the users U
AuthFailStep(U) ==
    \/ \E u \in U : Running /\ CbIdentifyFail(u)
    \/ \E u \in U : Running /\ CbExchangeFail(u)
    \/ Running /\ CallbackNoCode

\* the requests that are answered before any call leaves the process
LocalStep ==
    \/ \E s \in Slots : Running /\ StartInvalid(s)
    \/ \E s \in Slots : Running /\ RouteUnauthenticated(s)
    \/ \E s \in Slots : Finish(s)

Next ==
    \/ CallStep(Slots \X Clients)
    \/ AuthStep(Clients)
    \/ AuthFailStep(Clients)
    \/ LostWriteStep
    \/ LocalStep

Spec == Init /\ [][Next]_vars

\* the steps of the callback that gives user u its first record
FirstAuthStep(U) ==
    \/ \E u \in U : Running /\ ~HasRecord(u) /\ CbExchangeOk(u)
    \/ Running /\ CbTokensOk
    \/ CbFinish

\* The same program with every user of the store authorizing (once) and
\* calling, one call per user at a time. The requests that fail before the
\* store is written (AuthFailStep, LocalStep) and the repeated
\* authorizations are those of Spec and are left out.
OneCallEach == {<<1, "u1">>, <<2, "u2">>}

NextUsers ==
    \/ CallStep(OneCallEach)
    \/ FirstAuthStep(Users)
    \/ LostRefreshWrite

SpecUsers == Init /\ [][NextUsers]_vars

\* The program of Spec's calls and authorizations, with restarts of the
\* process between requests.
NextRestart ==
    \/ CallStep(Slots \X Clients)
    \/ AuthStep(Clients)
    \/ LostRefreshWrite
    \/ Running /\ Restart

SpecRestart == Init /\ [][NextRestart]_vars

\* The behaviours of Spec in which every write to the store is accepted.
NextWritten ==
    \/ CallStep(Slots \X Clients)
    \/ AuthStep(Clients)
    \/ AuthFailStep(Clients)
    \/ LocalStep

SpecWritten == Init /\ [][NextWritten]_vars

\* the store or the provider answers the call of slot s, with success or
\* failure: the `await`s of 263, 308, 325 and 342 resume
Answer(s) ==
    Running /\ \/ LookupHit(s) \/ LookupExpired(s) \/ LookupFail(s)
               \/ RefreshLookupOk(s) \/ RefreshLookupEmpty(s) \/ RefreshLookupFail(s)
               \/ ExchangeOk(s) \/ ExchangeFail(s)
               \/ PersistOk(s) \/ PersistFail(s)

\* an outcome is handed over: the process runs the continuation it has ready
Handover ==
    \/ \E s \in Slots : RouteRelay(s) \/ RouteFail(s) \/ Close(s)
    \/ CbFinish

\* The calls of Spec, with one authorization of the user, when every call
\* to the store and to the provider is answered in the end. Answer(s) is
\* disabled while another request's outcome is handed over, hence SF.
NextFair ==
    \/ CallStep(Slots \X Clients)
    \/ FirstAuthStep(Clients)
    \/ LostRefreshWrite

SpecFair ==
    /\ Init /\ [][NextFair]_vars
    /\ WF_vars(Handover)
    /\ \A s \in Slots : SF_vars(Answer(s))

\* --------------------------------------------------------- properties

Req(s) == reqs[s]
Done(s) == reqs[s].pc = "done"
Served(s) == Done(s) /\ Truthy(reqs[s].result)

\* the failure kind a caller can tell from the error it receives
Kind(error) ==
    CASE error[1] = "User ID is required" -> "InvalidInput"
      [] error[1] = "No refresh token found in runaway service" -> "NoCredentials"
      [] error[1] = "Strava token refresh failed" -> "RefreshFailed"
      [] error[1] = "Failed to fetch from runaway service" -> "UpstreamUnavailable"
      [] OTHER -> "Unclassified"

\* C1 (as stated): every token ensureValidToken returns, from the store or
\* from a refresh, has expires_at strictly greater than the time at which
\* the return is decided.
C1_FreshWhenReturned ==
    \A s \in Slots : Served(s) => Req(s).freshAtReturn

\* C1 (amended): every token ensureValidToken serves from the store has
\* expires_at strictly greater than the now the call sampled on entry
\* (line 259); a stored record whose expires_at equals that now is not
\* served: the call goes on to refresh; and a token obtained from a
\* refresh is returned as the provider issued it.
C1_FreshAgainstSampledNow ==
    \A s \in Slots :
        /\ Served(s) /\ Req(s).pcalls = 0 => Req(s).freshAtSample
        /\ Req(s).seen = "boundary" => Req(s).scalls >= 2
        /\ Served(s) /\ Req(s).pcalls > 0 =>
              /\ Req(s).result = Req(s).grant.access_token
              /\ Req(s).grant # NoRecord

C1_Witness ==
    \E s \in Slots : Served(s) /\ Req(s).seen = "boundary"

\* C2: when the lookup returns a record with expires_at > now, the call
\* returns exactly that record's access_token and sends nothing to the
\* provider.
C2_CacheHit ==
    \A s \in Slots :
        Req(s).seen = "valid" =>
            /\ Done(s)
            /\ Req(s).result = Req(s).seenToken
            /\ Truthy(Req(s).result)
            /\ Req(s).error = NoError
            /\ Req(s).pcalls = 0

C2_Witness ==
    \E s \in Slots : Done(s) /\ Req(s).seen = "valid" /\ clock >= 1

C4_PersistedRefreshServed ==
    \A s \in Slots :
        Req(s).lookup = "ok" /\ Truthy(Req(s).freshSeen) =>
            /\ Done(s)
            /\ Req(s).result = Req(s).freshSeen
            /\ Req(s).error = NoError
            /\ Req(s).pcalls = 0

C4_Witness ==
    \E s \in Slots : Done(s) /\ Truthy(Req(s).freshSeen)

\* C5: the refresh grant carries exactly the refresh token the store held
\* for the user when step 1 read it; when the provider answers and the
\* write is accepted, the store holds, under that user, exactly the triple
\* the provider issued, and the call returns its access_token.
C5_RefreshRoundTrip ==
    \A s \in Slots :
        /\ Req(s).pcalls >= 1 =>
              /\ Truthy(Req(s).presented)
              /\ Req(s).presented = Req(s).storeAtRead
        /\ Done(s) /\ Req(s).persist = "ok" =>
              /\ store[Req(s).userId] = Req(s).grant
              /\ Req(s).result = Req(s).grant.access_token
              /\ \A v \in Users \ {Req(s).userId} :
                    store[v] = NoRecord \/ store[v].access_token # Req(s).grant.access_token

C5_Witness ==
    \E s \in Slots :
        /\ Done(s) /\ Req(s).persist = "ok"
        /\ Req(s).seen = "expired"
        /\ store[Req(s).userId].refresh_token # Req(s).presented

\* C6: every refresh presents the refresh token that the provider returned
\* to the most recently persisted grant for that user, a refresh or the
\* authorization: what step 1 reads is what the previous persist wrote.
C6_PresentsLastPersisted ==
    \A s \in Slots :
        Req(s).pcalls >= 1 =>
            /\ Truthy(Req(s).presented)
            /\ Req(s).presented = Req(s).chainAtRead

C6_Witness ==
    \E s \in Slots :
        Done(s) /\ Req(s).persist = "ok" /\ Req(s).afterRefresh

\* C7: when the provider has answered the refresh and the write to the
\* store fails, the call still returns the access token just issued and
\* no error reaches the caller.
C7_WriteFailureSwallowed ==
    \A s \in Slots :
        Req(s).persist = "fail" =>
            /\ Served(s)
            /\ Req(s).result = Req(s).grant.access_token
            /\ Req(s).error = NoError

C7_Witness ==
    \E s \in Slots : Done(s) /\ Req(s).persist = "fail"

\* C8 (as stated): after a refresh whose write failed, a later call that
\* refreshes again, with the store answering and the provider reachable,
\* succeeds and leaves the store holding the record just issued.
C8_SelfCorrecting ==
    \A s \in Slots :
        (/\ Done(s)
         /\ Req(s).afterLoss
         /\ Req(s).rlookup = "ok"
         /\ Req(s).persist # "fail"
         /\ Req(s).cause # ExchangeCatch(ProviderDown))
        => /\ Served(s)
           /\ store[Req(s).userId] = Req(s).grant

\* C9 (as stated): when the provider fails the refresh, the error the
\* caller receives is of kind RefreshFailed and carries the provider's
\* detail.
C9_RefreshFailedReported ==
    \A s \in Slots :
        Done(s) /\ Kind(Req(s).cause) = "RefreshFailed" =>
            /\ Kind(Req(s).error) = "RefreshFailed"
            /\ Req(s).error[2] = Req(s).cause[2]

\* C10 (as stated): a call with an empty userId fails with an InvalidInput
\* error and sends nothing to the store or to the provider.
C10_EmptyUserIdRejected ==
    \A s \in Slots :
        Done(s) /\ ~TruthyId(Req(s).userId) =>
            /\ ~Served(s)
            /\ Kind(Req(s).error) = "InvalidInput"
            /\ Req(s).scalls = 0
            /\ Req(s).pcalls = 0

\* the part of C10 that the code keeps: the call fails and sends nothing
EmptyUserIdSendsNothing ==
    \A s \in Slots :
        Done(s) /\ ~TruthyId(Req(s).userId) =>
            /\ ~Served(s)
            /\ Req(s).error # NoError
            /\ Req(s).scalls = 0
            /\ Req(s).pcalls = 0

\* C11: when the store's answer to GET /refresh-tokens carries no refresh
\* token for the user, refreshAccessToken throws the NoCredentials error,
\* sends no grant to the provider and sends no write to the store.
C11_NoRefreshTokenNoCalls ==
    \A s \in Slots :
        Req(s).rlookup \in {"ok", "empty"} /\ ~Truthy(Req(s).storeAtRead) =>
            /\ Done(s)
            /\ ~Served(s)
            /\ Kind(Req(s).cause) = "NoCredentials"
            /\ Req(s).pcalls = 0
            /\ Req(s).persist = "none"
            /\ Req(s).grant = NoRecord
            /\ Req(s).scalls = 2

C11_Witness ==
    \E s \in Slots :
        Done(s) /\ Req(s).rlookup = "empty" /\ ~HasRecord(Req(s).userId)

\* C12 (as stated): a call whose GET /tokens failed goes on to refresh;
\* when the provider issues a pair the call returns its access token, and
\* when the store has no refresh token the caller receives a NoCredentials
\* error.
C12_LookupFailureFallsThrough ==
    \A s \in Slots :
        Req(s).lookup = "fail" =>
            /\ Req(s).scalls >= 2
            /\ Done(s) /\ Req(s).grant # NoRecord =>
                  Served(s) /\ Req(s).result = Req(s).grant.access_token
            /\ Done(s) /\ Req(s).rlookup = "empty" =>
                  ~Served(s) /\ Kind(Req(s).error) = "NoCredentials"

\* the part of C12 that the code keeps: the failed lookup leads to the
\* refresh, whose token is returned, and a missing refresh token fails
\* the call
LookupFailureRefreshes ==
    \A s \in Slots :
        Req(s).lookup = "fail" =>
            /\ Req(s).scalls >= 2
            /\ Done(s) /\ Req(s).grant # NoRecord =>
                  Served(s) /\ Req(s).result = Req(s).grant.access_token
            /\ Done(s) /\ Req(s).rlookup = "empty" =>
                  ~Served(s) /\ Req(s).error # NoError

\* C13 (as stated): when the callback reports success, the store holds,
\* under the user's id, the triple the provider issued to the
\* authorization_code grant.
C13_AuthorizationPersisted ==
    cb.pc = "done" /\ cb.response = CallbackSuccess =>
        /\ HasRecord(cb.userId)
        /\ store[cb.userId] = [access_token |-> cb.tokenResponse.access_token,
                               refresh_token |-> cb.tokenResponse.refresh_token,
                               expires_at |-> cb.tokenResponse.expires_at]

\* the part of C13 that the code keeps: when POST /tokens is accepted the
\* store holds the issued triple under the user's id
AuthorizationStoredWhenWritten ==
    cb.pc = "done" /\ cb.stored =>
        /\ cb.response = CallbackSuccess
        /\ store[cb.userId] = [access_token |-> cb.tokenResponse.access_token,
                               refresh_token |-> cb.tokenResponse.refresh_token,
                               expires_at |-> cb.tokenResponse.expires_at]

C15_UpstreamRelayed ==
    \A s \in Slots :
        Req(s).pc = "replied" /\ Req(s).upstream # NoResponse =>
            IF Req(s).upstream.status = 401
            THEN Req(s).reply.body =
                   <<"text", "Authentication expired. Please login again at the home page.">>
            ELSE /\ Req(s).reply.status = Req(s).upstream.status
                 /\ Req(s).reply.body = UpstreamBody(Req(s).upstream)

\* the part of C15 that the code keeps: a 401 is answered with the
\* re-authenticate message, a 2xx response is relayed as JSON
UpstreamSuccessRelayed ==
    \A s \in Slots :
        Req(s).pc = "replied" /\ Req(s).upstream # NoResponse =>
            /\ Req(s).upstream.status = 401 =>
                  Req(s).reply.body =
                    <<"text", "Authentication expired. Please login again at the home page.">>
            /\ Resolves(Req(s).upstream.status) =>
                  /\ Req(s).reply.status = Req(s).upstream.status
                  /\ Req(s).reply.body = UpstreamBody(Req(s).upstream)

\* C16: the store holds, for every user, at most one record, and it is
\* always the complete triple of one grant, the last one stored: a call
\* that completes after another call's refresh for the same user was
\* stored leaves its own triple when its write was accepted, and the
\* other's otherwise.
C16_StoreHoldsOneGrant ==
    /\ \A u \in Users :
          /\ store[u] = hist[u].lastGrant
          /\ HasRecord(u) =>
                /\ store[u].access_token = AccessTok(store[u].refresh_token[2])
                /\ store[u].refresh_token = RefreshTok(store[u].access_token[2])
    /\ \A s \in Slots :
          Done(s) /\ Req(s).raced /\ Req(s).persist = "ok" =>
              store[Req(s).userId] = Req(s).grant

C16_Witness ==
    \E s \in Slots :
        /\ Done(s) /\ Req(s).raced /\ Req(s).persist = "ok"
        /\ Req(s).seen \in {"boundary", "expired"}
        /\ \A t \in Slots \ {s} : reqs[t].pc = "idle"

C18_FailedRefreshLeavesRecord ==
    [][\A s \in Slots :
         /\ (reqs[s].pc \in {"rlookup", "exchange", "persist"}
                /\ reqs'[s].pc = "done" /\ reqs'[s].error # NoError) =>
              /\ store' = store
              /\ reqs'[s].persist = "none"
              /\ reqs'[s].grant = NoRecord
         /\ (reqs'[s].pc # reqs[s].pc /\ reqs[s].pc # "persist") =>
              store' = store]_vars

C18_Witness ==
    \E s \in Slots :
        /\ Done(s) /\ Req(s).error # NoError
        /\ Req(s).rlookup = "ok"
        /\ Req(s).seen \in {"boundary", "expired"}
        /\ HasRecord(Req(s).userId)
        /\ store[Req(s).userId].refresh_token = Req(s).storeAtRead

\* C19 (as stated): renewal stays possible for every authorized user:
\* whenever no request is in flight, the refresh token the store holds
\* for a user is one the provider accepts for that user, so that the next
\* getValidToken on an expired record, with the store and the provider
\* answering, is granted a new pair.
C19_RenewalStaysPossible ==
    AllIdle =>
        \A u \in Users :
            HasRecord(u) => u \in Owners(store[u].refresh_token)

\* C20: a step of an ensureValidToken call for user u changes the store
\* and the provider only where its refresh does: the cache hit changes
\* neither, no step before the provider's answer to the grant changes
\* either, and no step changes the record or the provider's state of a
\* user other than u, with calls for different users in flight together.
C20_NoOtherSideEffect ==
    [][\A s \in Slots :
         reqs'[s].pc # reqs[s].pc =>
           /\ reqs[s].pc \notin {"exchange", "persist"} =>
                 store' = store /\ prov' = prov /\ issued' = issued
           /\ reqs[s].pc = "exchange" => store' = store
           /\ \A v \in Users \ {reqs[s].userId, reqs'[s].userId} :
                 store'[v] = store[v] /\ prov'[v] = prov[v]]_vars

C20_Witness ==
    \E s \in Slots, t \in Slots :
        /\ Done(s) /\ Req(s).persist = "ok"
        /\ Req(t).pc \in {"lookup", "rlookup", "exchange", "persist"}
        /\ Req(t).userId # Req(s).userId
        /\ HasRecord(Req(t).userId)

C22_StoredRefreshTokenCurrent ==
    AllIdle =>
        \A u \in Users :
            HasRecord(u) => store[u].refresh_token = prov[u]

====
